---- MODULE Spec2Model ----
(***************************************************************************)
(* Adaptive batch-processing engine of Ai-Nav-Item: the BatchTaskManager   *)
(* class (task controller, batch scheduler, retrying item executor,        *)
(* concurrency adaptor).                                                   *)
(*                                                                         *)
(* The manager holds ONE task reference (this.task) and ONE abort          *)
(* controller reference (this.abortController).  Every runTask() coroutine *)
(* launched by a start() reads and writes the task through `this`, so a    *)
(* coroutine launched for an earlier task keeps acting on whatever task    *)
(* the manager currently references.  Each action below is one run of the  *)
(* event loop: from the point a coroutine (or an API call) is resumed up   *)
(* to its next await, micro-task continuations included.                   *)
(*                                                                         *)
(* Timers (inter-batch delay, retry backoff, the 500 ms of finally) may    *)
(* fire at any time; the item processor generateCardFields() and the       *)
(* database reads are the environment and settle with any outcome.  The    *)
(* task fields types, strategy and startTime are read by no decision of    *)
(* the engine and are left out; currentCard keeps only which statement     *)
(* wrote it last.  Card k of a list has id k.                              *)
(***************************************************************************)
EXTENDS Integers, Sequences, FiniteSets

\* ---------------------------------------------------------------- bounds
MaxStarts == 2      \* successful start() calls explored
MaxItems == 4       \* largest cards.length handed to start() (the route
                    \* never calls start() with an empty list)
MaxFaults == 1      \* items whose first processor call does not plainly succeed
MaxRateLimitCount == 5 \* SpecAdaptor: rate-limited windows fed to the adaptor
MaxStreak == 4      \* SpecAdaptor: clean streak explored at full concurrency
ScenarioItems == 10 \* SpecOneTask: largest cards.length of the single task

\* ------------------------------------------------------ program constants
minConcurrency == 1
maxConcurrency == 5
initialConcurrency == 3
maxRetries_Three == 2 + 1
maxRetries == 2
cleanStreakThreshold_Late == 3 + 1   \* the raise one clean window late
cleanStreakThreshold == 3
defaultRequestDelay == 1500
statusErrorsCap == 100

VARIABLES
    task,             \* this.task (present = FALSE models null)
    abortController,  \* this.abortController (present = FALSE models null)
    sched,            \* one runTask() coroutine per successful start()
    started,          \* number of successful start() calls so far
    published,        \* the snapshot last passed to emit('update', ...)
    lastCall,         \* outcome of the most recent start()/stop() call
    faults,           \* items whose first processor call did not plainly succeed
    window            \* batchSuccess / batchFail / hasRateLimit of the window
                      \* most recently classified (n = 0: none yet)

vars == <<task, abortController, sched, started, published, lastCall, faults, window>>

Scheds == 1..MaxStarts

Min(a, b) == IF a < b THEN a ELSE b
Max(a, b) == IF a > b THEN a ELSE b

\* ------------------------------------------------------------ task record
NullTask ==
    [present |-> FALSE, running |-> FALSE, current |-> 0, total |-> 0,
     successCount |-> 0, failCount |-> 0, currentCard |-> "",
     errors |-> <<>>, concurrency |-> 0, isRateLimited |-> FALSE,
     consecutiveSuccesses |-> 0, rateLimitCount |-> 0, notified |-> 0]

\* the object literal start() assigns to this.task
NewTask(n) ==
    [present |-> TRUE, running |-> TRUE, current |-> 0, total |-> n,
     successCount |-> 0, failCount |-> 0, currentCard |-> "starting",
     errors |-> <<>>, concurrency |-> initialConcurrency,
     isRateLimited |-> FALSE, consecutiveSuccesses |-> 0,
     rateLimitCount |-> 0, notified |-> 0]

NullController == [present |-> FALSE, gen |-> 0, aborted |-> FALSE]

\* Array.prototype.slice(-k): the last k elements
SliceLast(s, k) ==
    IF Len(s) <= k THEN s ELSE SubSeq(s, Len(s) - k + 1, Len(s))

GetStatus(t) ==
    IF ~t.present
    THEN [running |-> FALSE, hasTask |-> FALSE, current |-> 0, total |-> 0,
          successCount |-> 0, failCount |-> 0, currentCard |-> "",
          concurrency |-> 0, isRateLimited |-> FALSE, errors |-> <<>>]
    ELSE [running |-> t.running, hasTask |-> TRUE, current |-> t.current,
          total |-> t.total, successCount |-> t.successCount,
          failCount |-> t.failCount, currentCard |-> t.currentCard,
          concurrency |-> t.concurrency, isRateLimited |-> t.isRateLimited,
          errors |-> SliceLast(t.errors, statusErrorsCap)]

IsRunning(t) == t.present /\ t.running

\* --------------------------------------------------- concurrency adaptor
\* halving without the Math.max(minConcurrency, ...) clamp
Halve_NoClamp(c) == c \div 2

\* stepping down by one instead of halving
Halve_StepDown(c) == Max(minConcurrency, c - 1)

\* Math.max(this.minConcurrency, Math.floor(concurrency / 2))
Halve(c) == Max(minConcurrency, c \div 2)

\* a throttled window that leaves the clean streak as it was
ThrottledStreak_Kept(n) == n

\* line 387: a throttled window ends the clean streak
ThrottledStreak(n) == 0

AdjustConcurrency(t, successCount, failCount, hasRateLimit) ==
    IF ~t.present THEN t
    ELSE IF hasRateLimit
    THEN [t EXCEPT !.rateLimitCount = @ + 1,
                   !.consecutiveSuccesses = ThrottledStreak(@),
                   !.isRateLimited = TRUE,
                   !.concurrency = Halve(t.concurrency)]
    ELSE IF successCount > 0 /\ failCount = 0
    THEN LET n == t.consecutiveSuccesses + 1 IN
         IF n >= cleanStreakThreshold /\ t.concurrency < maxConcurrency
         THEN [t EXCEPT !.isRateLimited = FALSE,
                        !.concurrency = Min(maxConcurrency, t.concurrency + 1),
                        !.consecutiveSuccesses = 0]
         ELSE [t EXCEPT !.isRateLimited = FALSE,
                        !.consecutiveSuccesses = n]
    ELSE [t EXCEPT !.consecutiveSuccesses = 0]

\* ------------------------------------------------- retrying item executor
\* What one call of generateCardFields() can do:
\*   ok        resolves, no partialError
\*   partial   resolves with partialError
\*   rl        rejects with an error isRateLimitError() classifies as throttling
\*   err       rejects with another error carrying a message
\*   errNoMsg  rejects with another error whose message is empty
ProcessorOutcomes == {"ok", "partial", "rl", "err", "errNoMsg"}

IsRateLimitError(o) == o = "rl"

\* addEventListener('abort') on the controller referenced when sleep() is
\* called: it can fire only if that controller is not aborted yet.  0 = no
\* listener that can ever fire.
RegisterListener(ac) == IF ac.present /\ ~ac.aborted THEN ac.gen ELSE 0

\* one processCardWithRetry() chain: st is where it stands (call: a
\* generateCardFields() call is in flight, backoff: in its retry sleep, else
\* the result it returned), retry its retryCount, ms the duration passed to
\* the retry sleep it is in, lis the listener of that sleep
NewItem == [st |-> "call", retry |-> 0, lis |-> 0, ms |-> 0]

\* Math.pow(2, retryCount + 1) * 1000
RetryDelay(retryCount) == (2 ^ (retryCount + 1)) * 1000

\* processCardWithRetry() resumed when its generateCardFields() call settles
SettleItem(it, o, ac) ==
    IF o \in {"ok", "partial"}
    THEN [it EXCEPT !.st = o]
    ELSE IF IsRateLimitError(o) /\ it.retry < maxRetries
    THEN [it EXCEPT !.st = "backoff", !.lis = RegisterListener(ac),
                    !.ms = RetryDelay(it.retry)]
    ELSE [it EXCEPT !.st = o]

\* the recursive call after the backoff sleep
RetryItem(it) == [st |-> "call", retry |-> it.retry + 1, lis |-> 0, ms |-> 0]

ItemDone(it) == it.st \in ProcessorOutcomes
\* a result that counts as success only when every field was written
ResultSuccess_OkOnly(it) == it.st = "ok"

\* result.value.success
ResultSuccess(it) == it.st \in {"ok", "partial"}
ResultRateLimited(it) == it.st = "rl"

\* ------------------------------------------------------- batch scheduler
\* A runTask() coroutine: pc is the await it is suspended at
\*   idle (not launched), init (database reads), window (Promise.allSettled),
\*   sleep (inter-batch delay), grace (the 500 ms of finally), done;
\* index/total are its locals index/totalCards, items its window's calls,
\* baseDelay its local of that name (0 before it is read), halfMs the
\* duration of its inter-batch sleep in half milliseconds (baseDelay / 2 is
\* not rounded), lis the listener of that sleep.  stoppedInWindow records that stop()
\* arrived while its window was in flight (history, read by no action).
IdleSched ==
    [pc |-> "idle", index |-> 0, total |-> 0, items |-> <<>>, lis |-> 0,
     baseDelay |-> 0, halfMs |-> 0, stoppedInWindow |-> FALSE]

\* a join that resolves as soon as one member has settled
AllSettled_Any(items) == \E i \in 1..Len(items) : ItemDone(items[i])

\* Promise.allSettled(batchPromises) has resolved
AllSettled(items) == \A i \in 1..Len(items) : ItemDone(items[i])

BatchSuccess(results) ==
    Cardinality({i \in 1..Len(results) : ResultSuccess(results[i])})
BatchFail(results) ==
    Cardinality({i \in 1..Len(results) : ~ResultSuccess(results[i])})
HasRateLimit(results) ==
    \E i \in 1..Len(results) : ResultRateLimited(results[i])

NoWindow == [n |-> 0, batchSuccess |-> 0, batchFail |-> 0, hasRateLimit |-> FALSE]

\* the three locals the for-loop over results leaves behind
Classify(results) ==
    [n |-> Len(results), batchSuccess |-> BatchSuccess(results),
     batchFail |-> BatchFail(results), hasRateLimit |-> HasRateLimit(results)]

\* notifyDataChange(), counted in the task record that is current when it
\* is called (notified is history: no code reads it)
NotifyDataChange(t) == IF t.present THEN [t EXCEPT !.notified = @ + 1] ELSE t

\* a failed item recorded the way the catch block records a fatal error
FailureEntry_System(r, cardId) == [cardId |-> 0, kind |-> "system"]

\* the errors entry pushed for a failed item: the fixed rate-limit message
\* or the error's own message
FailureEntry(r, cardId) ==
    [cardId |-> cardId, kind |-> IF r.st = "rl" THEN "ratelimit" ELSE "error"]

\* one turn of the for-loop over results; cardId identifies batch[i]
ApplyOne(t, r, cardId) ==
    LET t1 == [t EXCEPT !.current = @ + 1] IN
    IF r.st = "ok" THEN NotifyDataChange([t1 EXCEPT !.successCount = @ + 1])
    ELSE IF r.st = "partial"
    THEN NotifyDataChange(
            [t1 EXCEPT !.successCount = @ + 1,
                       !.errors = Append(@, [cardId |-> cardId, kind |-> "warning"])])
    ELSE IF r.st \in {"rl", "err"}
    THEN [t1 EXCEPT !.failCount = @ + 1,
                    !.errors = Append(@, FailureEntry(r, cardId))]
    ELSE [t1 EXCEPT !.failCount = @ + 1]

RECURSIVE ApplyResults(_, _, _, _)
ApplyResults(t, results, index, i) ==
    IF i > Len(results) THEN t
    ELSE ApplyResults(ApplyOne(t, results[i], index + i), results, index, i + 1)

\* the value of parseInt(rawConfig.requestDelay) as an integer, 0 standing
\* for 0 and for NaN (requestDelay not configured or not a number)
RequestDelays == {0, 100, 500, 501, 1500, 1875, 10000, 20000}

\* Math.max(500, Math.min(10000, parseInt(rawConfig.requestDelay) || 1500))
BaseDelay(raw) == Max(500, Min(10000, IF raw = 0 THEN defaultRequestDelay ELSE raw))

\* a multiplier that keeps doubling with every rate-limited window
DelayMultiplier_NoCap(rateLimitCount) == 2 ^ rateLimitCount

\* Math.pow(2, Math.min(this.task.rateLimitCount, 4))
DelayMultiplier(rateLimitCount) == 2 ^ Min(rateLimitCount, 4)

\* calculateDelay(), in half milliseconds
CalculateDelay(t, baseDelay, hasRateLimit) ==
    IF ~t.present THEN 2 * baseDelay
    ELSE IF hasRateLimit
    THEN 2 * Min(baseDelay * DelayMultiplier(t.rateLimitCount), 30000)
    ELSE IF t.concurrency = 1 THEN 2 * baseDelay
    ELSE Max(2 * 200, baseDelay)

\* a window that always takes concurrency many cards
WindowSize_NoCap(t, sc) == t.concurrency

\* Length of cards.slice(index, index + this.task.concurrency)
WindowSize(t, sc) == Min(t.concurrency, sc.total - sc.index)

\* the while-loop head, reached with task t and coroutine state sc:
\* either the next window is launched or the loop is left for `finally`
LoopHead(ac, t, sc) ==
    IF sc.index < sc.total /\ ~((ac.present /\ ac.aborted) \/ ~IsRunning(t))
    THEN LET n == WindowSize(t, sc) IN
         [task |-> [t EXCEPT !.currentCard = "batch"],
          sc |-> [sc EXCEPT !.pc = "window", !.items = [i \in 1..n |-> NewItem],
                            !.lis = 0, !.halfMs = 0],
          emit |-> TRUE]
    ELSE [task |-> t,
          sc |-> [sc EXCEPT !.pc = IF t.present THEN "grace" ELSE "done",
                            !.lis = 0, !.halfMs = 0],
          emit |-> FALSE]

\* lines 276-354: all results of the window are in; apply them, adapt,
\* publish, advance, then sleep or leave the loop
WindowSettled(ac, t, sc) ==
    LET t1 == ApplyResults(t, sc.items, sc.index, 1)
        w == Classify(sc.items)
        t2 == AdjustConcurrency(t1, w.batchSuccess, w.batchFail, w.hasRateLimit)
        idx == sc.index + Len(sc.items)
        sc1 == [sc EXCEPT !.index = idx]
    IN  IF idx < sc.total /\ IsRunning(t2)
        THEN [task |-> t2, win |-> Classify(sc.items),
              sc |-> [sc1 EXCEPT !.pc = "sleep", !.lis = RegisterListener(ac),
                         !.halfMs = CalculateDelay(t2, sc.baseDelay, w.hasRateLimit)]]
        ELSE [task |-> t2, win |-> Classify(sc.items),
              sc |-> LoopHead(ac, t2, sc1).sc]

\* ------------------------------------------------------------------ Init
Init ==
    /\ task = NullTask
    /\ abortController = NullController
    /\ sched = [s \in Scheds |-> IdleSched]
    /\ started = 0
    /\ published = GetStatus(NullTask)
    /\ lastCall = "none"
    /\ faults = 0
    /\ window = NoWindow

\* --------------------------------------------------------- task controller
\* start() without its isRunning() precondition
CanStart_Always == TRUE

\* the precondition of start(): if (this.isRunning()) throw ...
CanStart == ~IsRunning(task)

\* start() with no task running: new controller, new task, emitUpdate, and
\* runTask() runs up to its first await (the database reads)
Start(n) ==
    /\ CanStart
    /\ started < MaxStarts
    /\ started' = started + 1
    /\ abortController' = [present |-> TRUE, gen |-> started + 1, aborted |-> FALSE]
    /\ task' = NewTask(n)
    /\ published' = GetStatus(task')
    /\ sched' = [sched EXCEPT ![started + 1] =
                    [IdleSched EXCEPT !.pc = "init", !.total = n]]
    /\ lastCall' = "started"
    /\ UNCHANGED <<faults, window>>

\* start() while isRunning(): throws before touching anything
StartRejected ==
    /\ ~CanStart
    /\ lastCall' = "rejected"
    /\ UNCHANGED <<task, abortController, sched, started, published, faults, window>>

\* a sleeping coroutine / backing-off item whose abort listener fires
Woken(lis, ac) == ac.present /\ ~ac.aborted /\ lis = ac.gen

StopItems(items, ac) ==
    [i \in 1..Len(items) |->
        IF items[i].st = "backoff" /\ Woken(items[i].lis, ac)
        THEN RetryItem(items[i]) ELSE items[i]]

\* stop(), lines 232-234: abort the controller, if there is one
StopController(ac) ==
    IF ac.present THEN [ac EXCEPT !.aborted = TRUE] ELSE ac

\* stop() that writes its fields without looking for a task first
StopTask_NoGuard(t) ==
    [t EXCEPT !.present = TRUE, !.running = FALSE, !.currentCard = "stopped"]

\* stop(), lines 235-237: mark the task stopped, if there is one
StopTask(t) ==
    IF t.present THEN [t EXCEPT !.running = FALSE, !.currentCard = "stopped"]
    ELSE t

\* stop(), line 238: emitUpdate() inside if (this.task)
StopPublished(t, pub) == IF t.present THEN GetStatus(StopTask(t)) ELSE pub

\* what stop() does to one coroutine: a sleep registered on the controller
\* is resolved by its abort listener and continues at the loop head in the
\* same turn of the event loop; backing-off items of a window in flight are
\* resolved likewise
StopSched(ac, t, sc) ==
    IF sc.pc = "sleep" /\ Woken(sc.lis, ac)
    THEN LoopHead(StopController(ac), StopTask(t), sc).sc
    ELSE IF sc.pc = "window"
    THEN [sc EXCEPT !.items = StopItems(@, ac), !.stoppedInWindow = TRUE]
    ELSE sc

\* stop(): abort the current controller (its listeners resolve the sleeps
\* registered on it), mark the current task stopped, publish
Stop ==
    /\ abortController' = StopController(abortController)
    /\ task' = StopTask(task)
    /\ published' = StopPublished(task, published)
    /\ sched' = [s \in Scheds |-> StopSched(abortController, task, sched[s])]
    /\ lastCall' = "stopped"
    /\ UNCHANGED <<started, faults, window>>

\* ------------------------------------------------------- scheduler steps
Commit(s, r) ==
    /\ task' = r.task
    /\ sched' = [sched EXCEPT ![s] = r.sc]
    /\ published' = IF r.emit THEN GetStatus(r.task) ELSE published

\* the database reads at the top of runTask() resolve; raw is the
\* requestDelay of the configuration read
InitDone(s, raw) ==
    /\ sched[s].pc = "init"
    /\ Commit(s, LoopHead(abortController, task,
                          [sched[s] EXCEPT !.baseDelay = BaseDelay(raw)]))
    /\ UNCHANGED <<abortController, started, lastCall, faults, window>>

\* a catch block that swallows the exception without recording it
CatchFatal_Silent(t) == t

\* the catch block of runTask(), lines 356-360
CatchFatal(t) ==
    IF t.present
    THEN [t EXCEPT !.errors = Append(@, [cardId |-> 0, kind |-> "system"])]
    ELSE t

\* a database read rejects: catch block, then finally
InitFail(s) ==
    /\ sched[s].pc = "init"
    /\ LET t1 == CatchFatal(task)
       IN  /\ task' = t1
           /\ sched' = [sched EXCEPT ![s] =
                 [@ EXCEPT !.pc = IF t1.present THEN "grace" ELSE "done"]]
    /\ UNCHANGED <<abortController, started, published, lastCall, faults, window>>

\* the first call for an item fails or only partly succeeds (what MaxFaults bounds)
FirstFault(it, o) == it.retry = 0 /\ o # "ok"

\* one generateCardFields() call of the window in flight settles with
\* outcome o; when it was the last unsettled member, Promise.allSettled
\* resolves and the window is applied in the same turn
ItemSettles(s, i, o) ==
    /\ sched[s].pc = "window"
    /\ i \in 1..Len(sched[s].items)
    /\ sched[s].items[i].st = "call"
    /\ FirstFault(sched[s].items[i], o) => faults < MaxFaults
    /\ faults' = IF FirstFault(sched[s].items[i], o) THEN faults + 1 ELSE faults
    /\ LET sc1 == [sched[s] EXCEPT !.items[i] = SettleItem(@, o, abortController)]
       IN  IF AllSettled(sc1.items)
           THEN LET r == WindowSettled(abortController, task, sc1)
                IN  /\ task' = r.task
                    /\ sched' = [sched EXCEPT ![s] = r.sc]
                    /\ published' = GetStatus(r.task)
                    /\ window' = r.win
           ELSE /\ sched' = [sched EXCEPT ![s] = sc1]
                /\ UNCHANGED <<task, published, window>>
    /\ UNCHANGED <<abortController, started, lastCall>>

\* the backoff timer of a retrying item fires: the item is processed again
BackoffTimer(s, i) ==
    /\ sched[s].pc = "window"
    /\ i \in 1..Len(sched[s].items)
    /\ sched[s].items[i].st = "backoff"
    /\ sched' = [sched EXCEPT ![s].items[i] = RetryItem(@)]
    /\ UNCHANGED <<task, abortController, started, published, lastCall, faults, window>>

\* the inter-batch timer fires
SleepTimer(s) ==
    /\ sched[s].pc = "sleep"
    /\ Commit(s, LoopHead(abortController, task, sched[s]))
    /\ UNCHANGED <<abortController, started, lastCall, faults, window>>

\* finally block, after its 500 ms timer
Finalize(t) ==
    [t EXCEPT !.running = FALSE, !.currentCard = "", !.current = t.total]

GraceTimer(s) ==
    /\ sched[s].pc = "grace"
    /\ task' = NotifyDataChange(Finalize(task))
    /\ published' = GetStatus(task')
    /\ sched' = [sched EXCEPT ![s] =
          [@ EXCEPT !.pc = "done", !.items = <<>>, !.stoppedInWindow = FALSE]]
    /\ UNCHANGED <<abortController, started, lastCall, faults, window>>

Next ==
    \/ \E n \in 1..MaxItems : Start(n)
    \/ StartRejected
    \/ Stop
    \/ \E s \in Scheds : InitDone(s, 0)
    \/ \E s \in Scheds : InitFail(s)
    \/ \E s \in Scheds, i \in 1..maxConcurrency, o \in ProcessorOutcomes :
          ItemSettles(s, i, o)
    \/ \E s \in Scheds, i \in 1..maxConcurrency : BackoffTimer(s, i)
    \/ \E s \in Scheds : SleepTimer(s)
    \/ \E s \in Scheds : GraceTimer(s)

Spec == Init /\ [][Next]_vars

\* what the event loop owes a launched coroutine: its database reads, its
\* processor calls and its timers all come back
SchedulerStep(s) ==
    \/ InitDone(s, 0)
    \/ \E i \in 1..maxConcurrency, o \in ProcessorOutcomes : ItemSettles(s, i, o)
    \/ \E i \in 1..maxConcurrency : BackoffTimer(s, i)
    \/ SleepTimer(s)
    \/ GraceTimer(s)

\* ------------------------------------------------- the adaptor on its own
\* adjustConcurrency() and calculateDelay() applied to every window
\* classification a scheduler can hand them, window after window, starting
\* from the task start() creates, with its first window launched and any
\* configured requestDelay.
\* A window holds 1..concurrency items; hasRateLimit implies a failed item.
InitAdaptor ==
    \E raw \in RequestDelays :
       LET ac == [present |-> TRUE, gen |-> 1, aborted |-> FALSE]
           r == LoopHead(ac, NewTask(MaxItems),
                         [IdleSched EXCEPT !.pc = "init", !.total = MaxItems,
                                           !.baseDelay = BaseDelay(raw)])
       IN  /\ task = r.task
           /\ abortController = ac
           /\ sched = [s \in Scheds |-> IF s = 1 THEN r.sc ELSE IdleSched]
           /\ started = 1
           /\ published = GetStatus(r.task)
           /\ lastCall = "started"
           /\ faults = 0
           /\ window = NoWindow

AdaptWindow(n, batchSuccess, hasRateLimit) ==
    /\ n \in 1..task.concurrency
    /\ batchSuccess \in 0..n
    /\ hasRateLimit => batchSuccess < n
    /\ hasRateLimit => task.rateLimitCount < MaxRateLimitCount
    /\ task.consecutiveSuccesses < MaxStreak
    /\ window' = [n |-> n, batchSuccess |-> batchSuccess,
                  batchFail |-> n - batchSuccess, hasRateLimit |-> hasRateLimit]
    /\ task' = AdjustConcurrency(task, batchSuccess, n - batchSuccess, hasRateLimit)
    /\ sched' = [sched EXCEPT ![1].halfMs =
                    CalculateDelay(task', sched[1].baseDelay, hasRateLimit)]
    /\ UNCHANGED <<abortController, started, published, lastCall, faults>>

NextAdaptor ==
    \E n \in 1..maxConcurrency, batchSuccess \in 0..maxConcurrency,
       hasRateLimit \in BOOLEAN : AdaptWindow(n, batchSuccess, hasRateLimit)

SpecAdaptor == InitAdaptor /\ [][NextAdaptor]_vars

\* ------------------------------------------- the tail of a long task
\* A task of BacklogTotal cards seen after its first BacklogWindows windows:
\* every call failed with an ordinary error, except the first call of the
\* first two windows, so statusErrorsCap entries are in task.errors and the
\* concurrency is still the initial one. The state is computed with the
\* scheduler's own steps; from it the scheduler runs on as in Spec.
BacklogWindows == (statusErrorsCap + 2) \div initialConcurrency

BacklogTotal == BacklogWindows * initialConcurrency + MaxItems

BacklogResults(j, n) ==
    [i \in 1..n |-> [NewItem EXCEPT !.st = IF j <= 2 /\ i = 1 THEN "ok" ELSE "err"]]

RECURSIVE AfterWindows(_, _, _, _)
AfterWindows(ac, t, sc, j) ==
    IF j > BacklogWindows THEN [task |-> t, sc |-> sc, win |-> NoWindow]
    ELSE LET h == LoopHead(ac, t, sc)
             r == WindowSettled(ac, h.task,
                     [h.sc EXCEPT !.items = BacklogResults(j, Len(h.sc.items))])
         IN  IF j = BacklogWindows \/ r.sc.pc # "sleep" THEN r
             ELSE AfterWindows(ac, r.task, r.sc, j + 1)

InitBacklog ==
    LET ac == [present |-> TRUE, gen |-> 1, aborted |-> FALSE]
        r == AfterWindows(ac, NewTask(BacklogTotal),
                          [IdleSched EXCEPT !.pc = "init", !.total = BacklogTotal,
                                            !.baseDelay = BaseDelay(0)], 1)
    IN  /\ task = r.task
        /\ abortController = ac
        /\ sched = [s \in Scheds |-> IF s = 1 THEN r.sc ELSE IdleSched]
        /\ started = 1
        /\ published = GetStatus(r.task)
        /\ lastCall = "started"
        /\ faults = 0
        /\ window = r.win

NextBacklog ==
    \/ StartRejected
    \/ Stop
    \/ \E s \in Scheds, i \in 1..maxConcurrency, o \in ProcessorOutcomes :
          ItemSettles(s, i, o)
    \/ \E s \in Scheds, i \in 1..maxConcurrency : BackoffTimer(s, i)
    \/ \E s \in Scheds : SleepTimer(s)
    \/ \E s \in Scheds : GraceTimer(s)

SpecBacklog == InitBacklog /\ [][NextBacklog]_vars

\* --------------------------------------- one task on a fresh controller
\* A single start() with 1..ScenarioItems cards on a newly constructed
\* manager: it runs to its end or is stopped; no second start(), and the
\* database reads succeed.
StartFresh(n) == started = 0 /\ Start(n)

NextOneTask ==
    \/ \E n \in 1..ScenarioItems : StartFresh(n)
    \/ Stop
    \/ \E s \in Scheds : InitDone(s, 0)
    \/ \E s \in Scheds, i \in 1..maxConcurrency, o \in ProcessorOutcomes :
          ItemSettles(s, i, o)
    \/ \E s \in Scheds, i \in 1..maxConcurrency : BackoffTimer(s, i)
    \/ \E s \in Scheds : SleepTimer(s)
    \/ \E s \in Scheds : GraceTimer(s)

SpecOneTask == Init /\ [][NextOneTask]_vars

\* one task whose database reads may reject
NextFatal ==
    \/ \E n \in 1..MaxItems : StartFresh(n)
    \/ Stop
    \/ \E s \in Scheds : InitDone(s, 0)
    \/ \E s \in Scheds : InitFail(s)
    \/ \E s \in Scheds, i \in 1..maxConcurrency, o \in ProcessorOutcomes :
          ItemSettles(s, i, o)
    \/ \E s \in Scheds, i \in 1..maxConcurrency : BackoffTimer(s, i)
    \/ \E s \in Scheds : SleepTimer(s)
    \/ \E s \in Scheds : GraceTimer(s)

SpecFatal == Init /\ [][NextFatal]_vars

\* SpecOneTask with every pending read, call and timer eventually delivered
FairOneTask == SpecOneTask /\ \A s \in Scheds : WF_vars(SchedulerStep(s))

\* ================================================================ claims
Active(s) == sched[s].pc \in {"init", "window", "sleep", "grace"}

\* a start() call returned or threw in this step
StartCalled ==
    /\ lastCall' \in {"started", "rejected"}
    /\ lastCall' # lastCall \/ started' # started

\* C1: start() invoked while a task is running throws the already-running
\* error and leaves the task record (cursor, counters, concurrency, errors),
\* the abort controller (cancellation flag), every scheduler and the last
\* published snapshot exactly as they were.
C1_StartWhileRunningRejected ==
    [][(IsRunning(task) /\ StartCalled) =>
          /\ lastCall' = "rejected"
          /\ UNCHANGED <<task, abortController, sched, started, published>>]_vars

\* a start() was rejected while a window of the running task was in flight
C1_Witness ==
    /\ lastCall = "rejected"
    /\ IsRunning(task)
    /\ \E s \in Scheds : sched[s].pc = "window" /\ task.current > 0

\* the task has been stopped and a scheduler has not finalized yet
Stopping == abortController.aborted /\ \E s \in Scheds : Active(s)

\* C2: between stop() and the finalization of the stopped task's scheduler
\* (state Stopping) no start() succeeds, i.e. no new task is created.
C2_NoStartWhileStopping ==
    [][Stopping => started' = started]_vars

\* C3: at most one scheduler loop is active (launched and not yet finalized)
\* at any time.
C3_SingleActiveScheduler ==
    Cardinality({s \in Scheds : Active(s)}) <= 1

\* C4: the task's concurrency is an integer in 1..5 in every state the
\* adaptor can drive it to, and it is 3 as long as no window has been applied
\* to the task start() created.
C4_ConcurrencyInBounds ==
    /\ task.concurrency \in 1..5
    /\ window.n = 0 => task.concurrency = 3

\* concurrency 5 regained after a throttle, and then a mixed window applied
C4_Witness ==
    /\ task.concurrency = 5
    /\ task.rateLimitCount >= 1
    /\ window.n > 0 /\ window.batchFail > 0 /\ ~window.hasRateLimit

\* C5 as stated: after a rate-limited window applied at concurrency c, the
\* next concurrency c' satisfies c' <= floor(c/2) and c' >= 1, for c in 1..5.
C5_HalvedBelowFloor ==
    [][window'.hasRateLimit =>
          /\ task'.concurrency <= task.concurrency \div 2
          /\ task'.concurrency >= 1]_vars

\* C5 amended: after a rate-limited window the adaptor replaces the task's
\* concurrency c by max(1, floor(c/2)): at most floor(c/2) for c in 2..5,
\* and 1 for c = 1; never below 1.
C5_HalvedOrMin ==
    [][window'.hasRateLimit =>
          /\ task.concurrency >= 2 => task'.concurrency <= task.concurrency \div 2
          /\ task.concurrency = 1 => task'.concurrency = 1
          /\ task'.concurrency >= 1]_vars

\* a rate-limited window has just taken concurrency from 4 or 5 down to 2
C5_Witness ==
    /\ window.hasRateLimit
    /\ task.isRateLimited
    /\ task.concurrency = 2

CleanWindow(w) == w.batchSuccess > 0 /\ w.batchFail = 0 /\ ~w.hasRateLimit

\* three fully clean windows of any sizes applied one after the other to t
ThreeClean(t, n1, n2, n3) ==
    LET t1 == AdjustConcurrency(t, n1, 0, FALSE)
        t2 == AdjustConcurrency(t1, n2, 0, FALSE)
        t3 == AdjustConcurrency(t2, n3, 0, FALSE)
    IN  /\ t1.concurrency = t.concurrency
        /\ t2.concurrency = t.concurrency
        /\ t3.concurrency = t.concurrency + 1
        /\ t3.consecutiveSuccesses = 0

\* C6: from clean streak 0 and concurrency c < 5, three consecutive fully
\* clean windows leave concurrency at c after the 1st and the 2nd and make it
\* exactly c+1, with streak 0 again, at the 3rd; step by step, a clean window
\* applied below concurrency 5 raises concurrency (by one, resetting the
\* streak) only when it is the 3rd of its streak, and a rate-limited window
\* halves at once (down to the minimum 1).
C6_ThreeCleanWindowsAddOne ==
    /\ [](task.consecutiveSuccesses = 0 /\ task.concurrency < 5 =>
             \A n1, n2, n3 \in 1..task.concurrency : ThreeClean(task, n1, n2, n3))
    /\ [][/\ (CleanWindow(window') /\ task.concurrency < 5) =>
                IF task.consecutiveSuccesses = 2
                THEN /\ task'.concurrency = task.concurrency + 1
                     /\ task'.consecutiveSuccesses = 0
                ELSE /\ task'.concurrency = task.concurrency
                     /\ task'.consecutiveSuccesses = task.consecutiveSuccesses + 1
           /\ window'.hasRateLimit =>
                task'.concurrency = Max(1, task.concurrency \div 2)]_vars

\* the 3rd clean window in a row has just raised concurrency from 3 to 4
C6_Witness ==
    /\ CleanWindow(window)
    /\ task.concurrency = 4
    /\ task.consecutiveSuccesses = 0
    /\ task.rateLimitCount = 0

\* scheduler s receives the results of its window in this step
WindowApplied(s) == sched[s].pc = "window" /\ sched'[s].pc # "window"

RetriedTwiceThenOk(it) == it.st = "ok" /\ it.retry = 2

\* the errors entries appended in this step
NewErrors(k) == k \in (Len(task.errors) + 1)..Len(task'.errors)

\* C7: in a task that is running (not stopped), an item throttled on its
\* first two attempts that succeeds on the third is counted as a success without an errors entry, and its window is
\* classified rate-limited, so the concurrency is halved (down to 1 at least)
\* when the window is applied.
C7_RetriedSuccessThrottles ==
    [][\A s \in Scheds :
          (/\ WindowApplied(s)
           /\ IsRunning(task)
           /\ \E i \in 1..Len(sched'[s].items) :
                 RetriedTwiceThenOk(sched'[s].items[i])) =>
             /\ task'.successCount >= task.successCount + 1
             /\ \A i \in 1..Len(sched'[s].items) :
                   RetriedTwiceThenOk(sched'[s].items[i]) =>
                      ~\E k \in 1..Len(task'.errors) :
                          NewErrors(k) /\ task'.errors[k].cardId = sched[s].index + i
             /\ window'.hasRateLimit
             /\ task'.concurrency = Max(1, task.concurrency \div 2)]_vars

\* C8: when stop() arrived while a window was in flight and items remain
\* beyond that window, the snapshot published at finalization has
\* running:false and current < total.
C8_StoppedSnapshotBelowTotal ==
    [][\A s \in Scheds :
          (/\ sched[s].pc = "grace" /\ sched'[s].pc = "done"
           /\ sched[s].stoppedInWindow
           /\ sched[s].index < sched[s].total
           /\ started = s) =>
             /\ published'.running = FALSE
             /\ published'.current < published'.total]_vars

\* C9: when stop() arrived while a window of scheduler s was in flight, the
\* results of every item of that window are applied (cursor advanced by the
\* window size, successCount + failCount raised by as much), and s launches
\* no window once that window has settled.
C9_StoppedWindowAppliedNoRelaunch ==
    [][\A s \in Scheds : sched[s].stoppedInWindow =>
          /\ WindowApplied(s) =>
                /\ task'.current = task.current + Len(sched[s].items)
                /\ task'.successCount + task'.failCount =
                      task.successCount + task.failCount + Len(sched[s].items)
          /\ sched[s].pc # "window" => sched'[s].pc # "window"]_vars

SystemEntry(k) == task.errors[k].kind = "system"

\* the current task is over, stop() was not called on it, nothing fatal
NaturalEnd ==
    /\ task.present /\ ~task.running
    /\ ~abortController.aborted
    /\ ~\E k \in 1..Len(task.errors) : SystemEntry(k)

\* C10: successCount + failCount never exceeds total, and equals total when
\* the task ended without stop() and without a scheduler-level fatal error.
C10_CountsWithinTotal ==
    /\ task.successCount + task.failCount <= task.total
    /\ NaturalEnd => task.successCount + task.failCount = task.total

\* a window with at least one failed item and no rate-limited item
MixedWindow(w) == w.n > 0 /\ w.batchFail > 0 /\ ~w.hasRateLimit

\* C11: applying a mixed window (some item failed, none rate-limited) leaves
\* the clean streak at 0, the concurrency unchanged and isRateLimited false;
\* hence isRateLimited is true only while the window applied last was
\* rate-limited.
C11_MixedWindowClearsThrottle ==
    /\ [][MixedWindow(window') =>
             /\ task'.consecutiveSuccesses = 0
             /\ task'.concurrency = task.concurrency
             /\ task'.isRateLimited = FALSE]_vars
    /\ [](task.isRateLimited => window.hasRateLimit)

\* C12: task.errors never holds more than 100 entries (an append to a full
\* buffer would have to drop the oldest entry to keep it so).
C12_ErrorsAtMostHundred == Len(task.errors) <= 100

\* every scheduler that was launched has finalized
AllFinalized == task.present /\ ~\E s \in Scheds : Active(s)

\* C13: once a task is over (finalized after a natural end, a stop() or a
\* fatal error), the notifier has been invoked successCount + 1 times since
\* the task was created: once per item counted as success and once at
\* finalization.
C13_NotifiedSuccessPlusOne ==
    AllFinalized => task.notified = task.successCount + 1

\* stop() called twice in a row from the current state ends in the state
\* the first call ends in
StopTwiceIsStopOnce ==
    LET ac1 == StopController(abortController)
        t1 == StopTask(task)
        p1 == StopPublished(task, published)
        s1 == [s \in Scheds |-> StopSched(abortController, task, sched[s])]
    IN  /\ StopController(ac1) = ac1
        /\ StopTask(t1) = t1
        /\ StopPublished(t1, p1) = p1
        /\ [s \in Scheds |-> StopSched(ac1, t1, s1[s])] = s1

\* C14: stop() on a controller without a task leaves it without a task and
\* without a controller to abort, so that status() still reports
\* running:false with no task; and in every state a second stop() right
\* after a stop() changes nothing.
C14_StopIdempotent ==
    /\ ~task.present =>
          /\ StopTask(task) = NullTask
          /\ StopController(abortController) = NullController
          /\ GetStatus(StopTask(task)) = GetStatus(NullTask)
          /\ StopPublished(task, published) = published
    /\ StopTwiceIsStopOnce

\* stop() has been called on a controller that never had a task
C14_Witness ==
    /\ lastCall = "stopped"
    /\ ~task.present
    /\ published = GetStatus(NullTask)

\* scheduler s launches a window in this step
WindowLaunched(s) == sched[s].pc # "window" /\ sched'[s].pc = "window"

\* scheduler s runs a task of 10 cards, not stopped, and every call settled
\* so far succeeded
TenAllSucceeding(s) ==
    /\ sched[s].total = 10
    /\ sched[s].pc \in {"window", "sleep", "grace", "done"}
    /\ faults = 0
    /\ ~abortController.aborted

\* C15: a window launched by a scheduler holds the min(concurrency, total -
\* index) cards that follow its index, none of them processed yet; and in a
\* task of 10 cards whose calls all succeed, windows start at index 0, 3, 6
\* and 9 with sizes 3, 3, 3 and 1, the concurrency being 3 until the third
\* window has been applied and 4 from then on.
C15_WindowsOfTenCleanItems ==
    /\ [][\A s \in Scheds : WindowLaunched(s) =>
             /\ sched'[s].index = sched[s].index
             /\ Len(sched'[s].items) =
                   Min(task.concurrency, sched[s].total - sched[s].index)
             /\ \A i \in 1..Len(sched'[s].items) : sched'[s].items[i] = NewItem]_vars
    /\ [](\A s \in Scheds : TenAllSucceeding(s) =>
             /\ sched[s].index \in {0, 3, 6, 9, 10}
             /\ sched[s].pc = "window" =>
                   Len(sched[s].items) = IF sched[s].index = 9 THEN 1 ELSE 3
             /\ task.concurrency = IF sched[s].index >= 9 THEN 4 ELSE 3
             /\ task.current = sched[s].index)

\* a task of 10 cards has ended with 10 successes and concurrency 4
C15_Witness ==
    /\ sched[1].total = 10 /\ sched[1].pc = "done"
    /\ faults = 0
    /\ task.successCount = 10 /\ task.current = 10
    /\ task.concurrency = 4 /\ task.consecutiveSuccesses = 1

\* C16: an item's processor is invoked at most 3 times (retryCount 0, 1, 2);
\* retryCount grows by one only when a retry sleep ends, and a retry sleep
\* is entered only from a failed call with retryCount < 2 and lasts 2000 ms
\* at retryCount 0 and 4000 ms at retryCount 1; a rate-limited failure is
\* returned only by the third invocation, and once an item has returned a
\* result it is not invoked again.
C16_AtMostThreeInvocations ==
    /\ [](\A s \in Scheds : \A i \in 1..Len(sched[s].items) :
             LET it == sched[s].items[i] IN
             /\ it.retry \in 0..2
             /\ it.st = "backoff" =>
                   /\ it.retry < 2
                   /\ it.ms = IF it.retry = 0 THEN 2000 ELSE 4000)
    /\ [][\A s \in Scheds : sched[s].pc = "window" =>
             \A i \in 1..Len(sched[s].items) :
                LET a == sched[s].items[i]
                    b == sched'[s].items[i]
                IN  /\ b.retry # a.retry =>
                          a.st = "backoff" /\ b.retry = a.retry + 1 /\ b.st = "call"
                    /\ (b.st = "backoff" /\ a.st # "backoff") => a.st = "call"
                    /\ (a.st = "call" /\ b.st = "rl") => a.retry = 2
                    /\ ItemDone(a) => b = a]_vars

\* an item was rate-limited on all three invocations and returned a failure
C16_Witness ==
    \E s \in Scheds : \E i \in 1..Len(sched[s].items) :
        sched[s].items[i].st = "rl" /\ sched[s].items[i].retry = 2

NewEntriesFor(c) ==
    {k \in 1..Len(task'.errors) : NewErrors(k) /\ task'.errors[k].cardId = c}

\* what C18 says of the window scheduler s applies in this step, except for
\* the number of invocations: every item is counted once, a partial one as
\* a success; a partial item gets exactly one entry, a warning; a window of
\* full and partial successes is clean and extends the clean streak
PartialCountedAsSuccess(s) ==
    LET items == sched'[s].items
        succ == {i \in 1..Len(items) : items[i].st \in {"ok", "partial"}}
    IN  /\ task'.successCount = task.successCount + Cardinality(succ)
        /\ task'.failCount = task.failCount + Len(items) - Cardinality(succ)
        /\ \A i \in 1..Len(items) : items[i].st = "partial" =>
              /\ Cardinality(NewEntriesFor(sched[s].index + i)) = 1
              /\ \A k \in NewEntriesFor(sched[s].index + i) :
                    task'.errors[k].kind = "warning"
        /\ succ = 1..Len(items) =>
              /\ CleanWindow(window')
              /\ ~task'.isRateLimited
              /\ IF task.consecutiveSuccesses >= 2 /\ task.concurrency < 5
                 THEN /\ task'.concurrency = task.concurrency + 1
                      /\ task'.consecutiveSuccesses = 0
                 ELSE /\ task'.concurrency = task.concurrency
                      /\ task'.consecutiveSuccesses = task.consecutiveSuccesses + 1

\* C18 as stated: an item that completed only partially was invoked exactly
\* once, is counted in successCount and never in failCount, appends exactly
\* one errors entry, flagged as a warning, and leaves its window fully clean
\* when the other items succeeded.
C18_PartialInvokedOnce ==
    [][\A s \in Scheds : WindowApplied(s) =>
          /\ PartialCountedAsSuccess(s)
          /\ \A i \in 1..Len(sched'[s].items) :
                sched'[s].items[i].st = "partial" => sched'[s].items[i].retry = 0]_vars

\* C18 amended: an item that completed only partially is not invoked again
\* after its partial result (it may have been retried before, after
\* rate-limited attempts), is counted in successCount and never in
\* failCount, appends exactly one errors entry, flagged as a warning, and
\* leaves its window fully clean when the other items succeeded.
C18_PartialNotRetried ==
    [][\A s \in Scheds :
          /\ WindowApplied(s) => PartialCountedAsSuccess(s)
          /\ sched[s].pc = "window" =>
                \A i \in 1..Len(sched[s].items) :
                   sched[s].items[i].st = "partial" =>
                      sched'[s].items[i] = sched[s].items[i]]_vars

\* a window whose only blemish is a partial item, itself retried once after
\* a rate-limited attempt, has been applied: clean, streak 1, one warning
C18_Witness ==
    /\ CleanWindow(window)
    /\ task.consecutiveSuccesses = 1
    /\ Len(task.errors) = 1 /\ task.errors[1].kind = "warning"
    /\ task.failCount = 0 /\ task.successCount = window.n
    /\ \E s \in Scheds : \E i \in 1..Len(sched[s].items) :
          sched[s].items[i].st = "partial" /\ sched[s].items[i].retry = 1

\* every scheduler that was launched finalizes, publishing running:false
\* (checked under FairOneTask, where calls and timers always come back)
EveryTaskFinalizes ==
    \A s \in Scheds :
       (sched[s].pc # "idle") ~> (sched[s].pc = "done" /\ ~published.running)

\* C19: for a scheduler whose task was stopped while its window was in
\* flight, that window is the last one it completes: once the window has
\* been applied its index stays where it is and it is in finalization (the
\* 500 ms grace, then done), which is how every started task comes to its
\* end when its calls settle.
C19_StoppedFinalizesAfterWindow ==
    [][\A s \in Scheds :
          (sched[s].stoppedInWindow /\ sched[s].pc # "window") =>
             /\ sched[s].pc \in {"grace", "done"}
             /\ sched'[s].pc \in {"grace", "done"}
             /\ sched'[s].index = sched[s].index]_vars

\* C20: once cancellation has been signalled no sleep is pending, neither
\* an inter-batch sleep nor a retry backoff: those in progress at stop()
\* have returned, and one begun afterwards returns without waiting.
C20_NoSleepOnceCancelled ==
    abortController.aborted =>
       \A s \in Scheds :
          /\ sched[s].pc # "sleep"
          /\ \A i \in 1..Len(sched[s].items) : sched[s].items[i].st # "backoff"

\* the fields of the task that adjustConcurrency() writes
AdaptiveFields(t) ==
    <<t.concurrency, t.consecutiveSuccesses, t.rateLimitCount, t.isRateLimited>>

\* C21: a scheduler launches a window only when every call of its previous
\* window has returned its final result (retries included); when a window
\* is applied all its members have settled and the adaptor is applied once,
\* to the classification of that window; and the adaptive fields of a task
\* change in no other step.
C21_WindowsSequential ==
    [][/\ \A s \in Scheds : WindowLaunched(s) =>
             /\ sched[s].pc \in {"init", "sleep"}
             /\ \A i \in 1..Len(sched[s].items) :
                   sched[s].items[i].st \in ProcessorOutcomes
       /\ \A s \in Scheds : WindowApplied(s) =>
             /\ \A i \in 1..Len(sched'[s].items) :
                   sched'[s].items[i].st \in ProcessorOutcomes
             /\ window' = Classify(sched'[s].items)
             /\ AdaptiveFields(task') =
                   AdaptiveFields(AdjustConcurrency(task, window'.batchSuccess,
                                     window'.batchFail, window'.hasRateLimit))
       /\ (AdaptiveFields(task') # AdaptiveFields(task) /\ started' = started) =>
             \E s \in Scheds : WindowApplied(s)]_vars

\* the second window of a task is in flight, the first one having been
\* rate-limited after two retries of one of its items
C21_Witness ==
    \E s \in Scheds :
       /\ sched[s].pc = "window" /\ sched[s].index > 0
       /\ window.hasRateLimit
       /\ task.concurrency = 1 /\ task.rateLimitCount = 1

FailedItems(items) ==
    {i \in 1..Len(items) : items[i].st \in {"rl", "err", "errNoMsg"}}

\* C22: when a window is applied every failed item of it (rate-limited or
\* not, after any number of attempts) adds exactly one to failCount and no
\* system entry is appended; failCount changes in no other step; and while
\* the task is running and not cancelled the scheduler goes on: it sleeps
\* when cards remain and then launches the next window.
C22_ItemFailureDoesNotAbort ==
    [][/\ ((\A s \in Scheds : ~WindowApplied(s)) /\ started' = started) =>
             task'.failCount = task.failCount
       /\ \A s \in Scheds :
          /\ WindowApplied(s) =>
                /\ task'.failCount =
                      task.failCount + Cardinality(FailedItems(sched'[s].items))
                /\ \A k \in 1..Len(task'.errors) :
                      NewErrors(k) => task'.errors[k].kind # "system"
                /\ (sched'[s].index < sched[s].total /\ task.running) =>
                      sched'[s].pc = "sleep"
          /\ (sched[s].pc = "sleep" /\ sched'[s].pc # "sleep"
                 /\ task'.running /\ ~abortController'.aborted) =>
                sched'[s].pc = "window"]_vars

\* the second window is in flight although a card of the first one failed
C22_Witness ==
    \E s \in Scheds :
       /\ sched[s].pc = "window" /\ sched[s].index > 0
       /\ task.failCount = 1 /\ task.running
       /\ Len(task.errors) = 1 /\ task.errors[1].kind = "error"

SystemEntries(t) == {k \in 1..Len(t.errors) : t.errors[k].kind = "system"}

\* an exception leaves the try block of scheduler s: while the task is
\* running and not cancelled, its database reads end without a window
FatalStep(s) ==
    /\ sched[s].pc = "init" /\ sched'[s].pc = "grace"
    /\ task.running /\ ~abortController.aborted

\* C23: an exception raised in runTask() outside the item processor appends
\* exactly one system entry (cardId 0) to errors and nothing else does; the
\* scheduler goes to its finalization without launching a window again; the
\* finalization sets running to false and calls the notifier once; start()
\* has returned before and its outcome is not changed, and the system
\* entry of its own catch handler is never added.
C23_FatalErrorEndsTask ==
    [][\A s \in Scheds :
          /\ FatalStep(s) =>
                /\ Len(task'.errors) > Len(task.errors)
                /\ SystemEntries(task') = SystemEntries(task) \cup {Len(task'.errors)}
                /\ Cardinality(SystemEntries(task')) =
                      Cardinality(SystemEntries(task)) + 1
                /\ lastCall' = lastCall
          /\ (started' = started /\ SystemEntries(task') # SystemEntries(task)) =>
                \E z \in Scheds : sched[z].pc = "init" /\ sched'[z].pc = "grace"
          /\ Cardinality(SystemEntries(task')) <= 1
          /\ sched[s].pc = "grace" => sched'[s].pc \in {"grace", "done"}
          /\ (sched[s].pc = "done" /\ started' = started) => sched'[s].pc = "done"
          /\ (sched[s].pc = "grace" /\ sched'[s].pc = "done") =>
                /\ ~task'.running
                /\ task'.notified = task.notified + 1
                /\ SystemEntries(task') = SystemEntries(task)
                /\ lastCall' = lastCall]_vars

\* a task of several cards ended by a fatal error: one system entry, cards
\* left unprocessed, finalized with its notifier call, start() had returned
C23_Witness ==
    \E s \in Scheds :
        /\ sched[s].pc = "done" /\ sched[s].index = 0 /\ sched[s].total > 1
        /\ Cardinality(SystemEntries(task)) = 1
        /\ task.current = task.total /\ task.successCount + task.failCount = 0
        /\ ~task.running /\ ~abortController.aborted
        /\ task.notified = 1
        /\ lastCall = "started"
\* C24: the cursor (field current) of the task record stays within
\* 0..total in every state reached by start(), stop(), window applications
\* and finalizations, and no step other than the start() of a new task
\* makes it smaller.
C24_CursorMonotoneWithinTotal ==
    [][/\ 0 <= task'.current /\ task'.current <= task'.total
       /\ started' = started => task'.current >= task.current]_vars
\* the processor calls launched and not yet settled, over all schedulers
InFlight ==
    {<<s, i>> \in Scheds \X (1..maxConcurrency) :
        /\ sched[s].pc = "window"
        /\ i <= Len(sched[s].items)
        /\ sched[s].items[i].st = "call"}

\* C25: in every state reached by start() and stop() calls, at most
\* maxConcurrency (5) processor calls are in flight in the manager.
C25_InFlightAtMostMax == Cardinality(InFlight) <= maxConcurrency
\* item i of scheduler s is handed to the processor in this step: a call
\* of a new window or the retry of a backing-off item
InvocationBegins(s, i) ==
    /\ sched'[s].pc = "window"
    /\ i \in 1..Len(sched'[s].items)
    /\ sched'[s].items[i].st = "call"
    /\ ~(/\ sched[s].pc = "window"
         /\ i <= Len(sched[s].items)
         /\ sched[s].items[i] = sched'[s].items[i])

\* C26: from the stop() call on, as long as no new task is started, no
\* processor invocation begins: no window is launched and no item is
\* retried.
C26_NoInvocationAfterStop ==
    [][(abortController'.aborted /\ started' = started) =>
          \A s \in Scheds, i \in 1..maxConcurrency : ~InvocationBegins(s, i)]_vars
\* C27: when the current task is over although stop() was never called on
\* it (and nothing fatal happened), the scheduler launched by its own
\* start() has gone through all of its cards and has finalized, and the
\* counters add up to total.
C27_FinalizedByOwnScheduler ==
    (NaturalEnd /\ started > 0) =>
        /\ sched[started].pc = "done"
        /\ sched[started].index = sched[started].total
        /\ sched[started].total = task.total
        /\ task.successCount + task.failCount = task.total
Counters(snapshot) ==
    <<snapshot.successCount, snapshot.failCount, snapshot.current>>

\* C28: once the published snapshot of a task says running: false, every
\* snapshot published later for the same task carries the same
\* successCount, failCount and current.
C28_StoppedSnapshotIsFinal ==
    [][(published.hasTask /\ ~published.running /\ started' = started) =>
          Counters(published') = Counters(published)]_vars
\* C29: a window is launched at the scheduler's index with between 1 and
\* total - index cards; the index moves only when that window is applied,
\* and then by the size of the window, whatever the concurrency has become;
\* and when the task is over without stop() and without a fatal error the
\* index of its scheduler has reached total, so the windows have covered
\* cards 1..total in order, each card in exactly one window.
C29_WindowsPartitionItems ==
    [][/\ \A s \in Scheds :
             /\ WindowLaunched(s) =>
                   /\ sched'[s].index = sched[s].index
                   /\ Len(sched'[s].items) >= 1
                   /\ Len(sched'[s].items) <= sched[s].total - sched[s].index
             /\ sched'[s].index # sched[s].index =>
                   /\ WindowApplied(s)
                   /\ sched'[s].index = sched[s].index + Len(sched[s].items)
       /\ (NaturalEnd' /\ started' > 0) =>
             sched'[started'].index = sched'[started'].total]_vars
\* C30: while the concurrency is below its maximum 5 the clean streak
\* (consecutiveSuccesses) is at most 2, so a streak of 3 or more exists only
\* at concurrency 5; and a step that lowers the concurrency of a task
\* leaves its streak at 0.
C30_StreakBelowThreeUnlessMax ==
    /\ [](task.concurrency < 5 => task.consecutiveSuccesses <= 2)
    /\ [][(started' = started /\ task'.concurrency < task.concurrency) =>
             task'.consecutiveSuccesses = 0]_vars

\* the first throttled window of a task came at concurrency 4 or 5, reached
\* by clean streaks: the concurrency is halved to 2 and the streak is 0
C30_Witness ==
    /\ window.hasRateLimit
    /\ task.rateLimitCount = 1
    /\ task.concurrency = 2
    /\ task.consecutiveSuccesses = 0
====
